---- MODULE Spec2Model ----
(***************************************************************************)
(* Model of claude_complete_parser.py: the record loader (load_data), the  *)
(* text normaliser (safe_filename, format_message_content, display name,  *)
(* summary), the content filter and the archive builder                   *)
(* (export_to_markdown), run one or more times into one output directory. *)
(*                                                                         *)
(* Text is a sequence of one-character strings.  A JSON object is a       *)
(* record; an absent key is a field missing from the record's domain.     *)
(***************************************************************************)
EXTENDS Integers, Sequences, FiniteSets, TLC

VARIABLES
    argv,                \* the input files of the current run, in command-line order
    pc,                  \* position of the current run in main()
    idx,                 \* load_data: index of the next file of argv
    conversations,       \* self.conversations
    projects,            \* self.projects
    users,               \* self.users
    conversations_found, \* load_data's local flag
    exit_code,           \* -1 while the process runs, then its exit status
    out,                 \* files of the output directory: path -> content
    written,             \* the writes of the current run so far, each [path, content]
    now,                 \* wall clock (minutes), read by create_readme
    run,                 \* number of the current run into the output directory
    prev,                \* argv and output directory as the previous run left them
    fn_op,               \* pure-function harness: the function applied ("none" before)
    fn_in,               \* pure-function harness: its argument
    fn_res               \* pure-function harness: its result

vars == <<argv, pc, idx, conversations, projects, users, conversations_found,
          exit_code, out, written, now, run, prev, fn_op, fn_in, fn_res>>

progVars == <<argv, pc, idx, conversations, projects, users, conversations_found,
              exit_code, out, written, now, run, prev>>

fnVars == <<fn_op, fn_in, fn_res>>

----------------------------------------------------------------------------
(* Bounds of the model *)

\* longest argv of a run
MaxFiles == 2
\* runs into the same output directory
MaxRuns == 2
\* longest enumerated tail of a safe_filename argument
MaxText == 3
\* most messages of a conversation given to the pure functions
MaxMsgs == 2
\* most content blocks given to extract_message_text
MaxBlocks == 3

----------------------------------------------------------------------------
(* Text helpers *)

Min(S) == CHOOSE x \in S : \A y \in S : x <= y

Max(S) == CHOOSE x \in S : \A y \in S : x >= y

\* Python dict.get(key, default)
Get(r, k, d) == IF k \in DOMAIN r THEN r[k] ELSE d

\* n copies of the letter a
Fill(n) == [i \in 1..n |-> "a"]

\* s[:n]
Take(s, n) == SubSeq(s, 1, IF Len(s) < n THEN Len(s) ELSE n)

\* s[-n:]
LastN(s, n) == SubSeq(s, IF Len(s) > n THEN Len(s) - n + 1 ELSE 1, Len(s))

\* characters matched by \w (ASCII part)
WordChars ==
    {"a","b","c","d","e","f","g","h","i","j","k","l","m","n","o","p","q","r",
     "s","t","u","v","w","x","y","z",
     "A","B","C","D","E","F","G","H","I","J","K","L","M","N","O","P","Q","R",
     "S","T","U","V","W","X","Y","Z",
     "0","1","2","3","4","5","6","7","8","9","_"}

\* characters matched by \s, stripped by str.strip()
SpaceChars == {" ", "\t", "\n", "\r", "\f"}

\* the characters line 123 replaces
ReservedChars == {"<", ">", ":", "\"", "/", "\\", "|", "?", "*"}

\* re.sub over single characters: every character in set becomes c
MapChars(s, set, c) == [i \in DOMAIN s |-> IF s[i] \in set THEN c ELSE s[i]]

\* re.sub(r'[set]+', c, s): every maximal run of characters of set becomes c
ReplaceRuns(s, set, c) ==
    LET marked == [i \in DOMAIN s |->
                     IF s[i] \in set
                     THEN (IF i > 1 /\ s[i-1] \in set THEN "" ELSE c)
                     ELSE s[i]]
    IN SelectSeq(marked, LAMBDA x : x # "")

\* str.rstrip(set)
RStrip(s, set) ==
    LET keep == {i \in DOMAIN s : s[i] \notin set}
    IN IF keep = {} THEN <<>> ELSE SubSeq(s, 1, Max(keep))

\* str.strip(set)
Strip(s, set) ==
    LET keep == {i \in DOMAIN s : s[i] \notin set}
    IN IF keep = {} THEN <<>> ELSE SubSeq(s, Min(keep), Max(keep))

\* the lower-case letter of each upper-case letter
LowerOf ==
    [A |-> "a", B |-> "b", C |-> "c", D |-> "d", E |-> "e", F |-> "f", G |-> "g",
     H |-> "h", I |-> "i", J |-> "j", K |-> "k", L |-> "l", M |-> "m", N |-> "n",
     O |-> "o", P |-> "p", Q |-> "q", R |-> "r", S |-> "s", T |-> "t", U |-> "u",
     V |-> "v", W |-> "w", X |-> "x", Y |-> "y", Z |-> "z"]

\* str.lower()
Lower(s) == [i \in DOMAIN s |-> IF s[i] \in DOMAIN LowerOf THEN LowerOf[s[i]] ELSE s[i]]

\* Python's  sub in s
Contains(s, sub) ==
    \E i \in 1..(Len(s) - Len(sub) + 1) : SubSeq(s, i, i + Len(sub) - 1) = sub

----------------------------------------------------------------------------
(* Text normaliser *)

\* default max_length of safe_filename
DefaultMaxLength == 100

T_untitled == <<"u","n","t","i","t","l","e","d">>

\* a faulty variant, for comparison: truncation without the trailing-underscore trim of line 129
safe_filename_notrim(text, max_length) ==
    LET f1 == MapChars(text, ReservedChars, "_")
        f2 == [i \in DOMAIN f1 |->
                 IF f1[i] \in WordChars \cup SpaceChars \cup {"-", "_", "."}
                 THEN f1[i] ELSE "_"]
        f3 == ReplaceRuns(f2, SpaceChars, "_")
        f4 == Strip(f3, {"_"})
        f5 == IF Len(f4) > max_length THEN Take(f4, max_length) ELSE f4
    IN IF f5 = <<>> THEN T_untitled ELSE f5

safe_filename(text, max_length) ==
    LET f1 == MapChars(text, ReservedChars, "_")
        f2 == [i \in DOMAIN f1 |->
                 IF f1[i] \in WordChars \cup SpaceChars \cup {"-", "_", "."}
                 THEN f1[i] ELSE "_"]
        f3 == ReplaceRuns(f2, SpaceChars, "_")
        f4 == Strip(f3, {"_"})
        f5 == IF Len(f4) > max_length
              THEN RStrip(Take(f4, max_length), {"_"})
              ELSE f4
    IN IF f5 = <<>> THEN T_untitled ELSE f5

SafeFilename(text) == safe_filename(text, DefaultMaxLength)

\* the grave accent U+0060, which a TLA+ string cannot hold
Tick == "GRAVE"

T_code_block == <<"[","c","o","d","e"," ","b","l","o","c","k","]">>

T_code == <<"[","c","o","d","e","]">>

T_ellipsis == <<".",".",".">>

T_no_messages == <<"N","o"," ","m","e","s","s","a","g","e","s">>

T_messages == <<" ","m","e","s","s","a","g","e","s">>

T_dash == <<" ","-"," ">>

T_untitled_conversation ==
    <<"U","n","t","i","t","l","e","d"," ","C","o","n","v","e","r","s","a","t","i","o","n">>

T_untitled_project ==
    <<"U","n","t","i","t","l","e","d"," ","P","r","o","j","e","c","t">>

T_untitled_document ==
    <<"U","n","t","i","t","l","e","d"," ","D","o","c","u","m","e","n","t">>

T_unknown == <<"u","n","k","n","o","w","n">>

T_Unknown == <<"U","n","k","n","o","w","n">>

T_md == <<".","m","d">>

\* str(n) for a natural number n
RECURSIVE Digits(_)
Digits(n) ==
    LET d == <<"0","1","2","3","4","5","6","7","8","9">>
    IN IF n < 10 THEN <<d[n + 1]>> ELSE Digits(n \div 10) \o <<d[(n % 10) + 1]>>

\* '\n'.join(parts)
RECURSIVE JoinLines(_)
JoinLines(parts) ==
    IF parts = <<>> THEN <<>>
    ELSE IF Len(parts) = 1 THEN parts[1]
    ELSE parts[1] \o <<"\n">> \o JoinLines(Tail(parts))

\* a faulty variant, for comparison: a text block with an empty text is joined in as well
extract_message_text_keepempty(content_array) ==
    LET blocks == SelectSeq(content_array, LAMBDA b : Get(b, "type", "") = "text")
    IN JoinLines([i \in DOMAIN blocks |-> Get(blocks[i], "text", <<>>)])

extract_message_text(content_array) ==
    LET texts == [i \in DOMAIN content_array |->
                    IF Get(content_array[i], "type", "") = "text"
                    THEN Get(content_array[i], "text", <<>>)
                    ELSE <<>>]
    IN JoinLines(SelectSeq(texts, LAMBDA t : t # <<>>))

\* message content is tagged with its JSON type: [t |-> "str", v |-> text],
\* [t |-> "list", v |-> blocks] or [t |-> "other"] (a number, an object, null)
format_message_content(message) ==
    IF "text" \in DOMAIN message /\ message.text # <<>>
    THEN Strip(message.text, SpaceChars)
    ELSE LET content == Get(message, "content", [t |-> "list", v |-> <<>>])
         IN CASE content.t = "str" -> Strip(content.v, SpaceChars)
              [] content.t = "list" -> Strip(extract_message_text(content.v), SpaceChars)
              [] OTHER -> <<>>

\* three grave accents at position i of s
FenceAt(s, i) == i + 2 <= Len(s) /\ s[i] = Tick /\ s[i+1] = Tick /\ s[i+2] = Tick

\* line 178: a fenced block, from three grave accents to the next three, becomes
\* [code block] (leftmost match first, each match as short as possible)
RECURSIVE SubFences(_)
SubFences(s) ==
    LET fences == {i \in DOMAIN s : FenceAt(s, i)}
        opens == {i \in fences : \E j \in fences : j >= i + 3}
        open == Min(opens)
        close == Min({j \in fences : j >= open + 3})
    IN IF opens = {} THEN s
       ELSE SubSeq(s, 1, open - 1) \o T_code_block
            \o SubFences(SubSeq(s, close + 3, Len(s)))

\* line 179: an inline span between two grave accents becomes [code]
RECURSIVE SubInline(_)
SubInline(s) ==
    LET ticks == {i \in DOMAIN s : s[i] = Tick}
        open == Min(ticks)
        close == Min(ticks \ {open})
    IN IF Cardinality(ticks) < 2 THEN s
       ELSE SubSeq(s, 1, open - 1) \o T_code \o SubInline(SubSeq(s, close + 1, Len(s)))

\* lines 178-182 and 208-212: the cleaning both summary and display name apply
CleanMessage(first_message) ==
    LET c1 == SubFences(first_message)
        c2 == SubInline(c1)
        c3 == ReplaceRuns(c2, {"\n"}, " ")
        c4 == ReplaceRuns(c3, SpaceChars, " ")
    IN Strip(c4, SpaceChars)

\* length of the summary text of get_conversation_summary
SummaryLength == 80

\* length of a display name taken from a message
NameLength == 50

\* indices of the messages sent by human
HumanIndices(messages) ==
    {i \in DOMAIN messages : Get(messages[i], "sender", "") = "human"}

\* a faulty variant, for comparison: the summary text comes from the first human
\* message that has content
get_conversation_summary_anyhuman(conversation) ==
    LET messages == Get(conversation, "chat_messages", <<>>)
        humans == {i \in HumanIndices(messages) :
                     format_message_content(messages[i]) # <<>>}
        first_message == IF humans = {} THEN <<>>
                         ELSE format_message_content(messages[Min(humans)])
        clean_message == CleanMessage(first_message)
        summary == IF Len(clean_message) > SummaryLength
                   THEN RStrip(Take(clean_message, SummaryLength), SpaceChars) \o T_ellipsis
                   ELSE clean_message
    IN IF messages = <<>> THEN T_no_messages
       ELSE IF first_message # <<>>
       THEN Digits(Len(messages)) \o T_messages \o T_dash \o summary
       ELSE Digits(Len(messages)) \o T_messages

get_conversation_summary(conversation) ==
    LET messages == Get(conversation, "chat_messages", <<>>)
        humans == HumanIndices(messages)
        first_message == IF humans = {} THEN <<>>
                         ELSE format_message_content(messages[Min(humans)])
        clean_message == CleanMessage(first_message)
        summary == IF Len(clean_message) > SummaryLength
                   THEN RStrip(Take(clean_message, SummaryLength), SpaceChars) \o T_ellipsis
                   ELSE clean_message
    IN IF messages = <<>> THEN T_no_messages
       ELSE IF first_message # <<>>
       THEN Digits(Len(messages)) \o T_messages \o T_dash \o summary
       ELSE Digits(Len(messages)) \o T_messages

\* a faulty variant, for comparison: the name is cut to NameLength characters and nothing is appended
NameFromMessageCut(first_message) ==
    LET clean_message == CleanMessage(first_message)
    IN IF Len(clean_message) > NameLength
       THEN Take(clean_message, NameLength)
       ELSE clean_message

\* lines 207-218
NameFromMessage(first_message) ==
    LET clean_message == CleanMessage(first_message)
    IN IF Len(clean_message) > NameLength
       THEN RStrip(Take(clean_message, NameLength), SpaceChars) \o T_ellipsis
       ELSE clean_message

get_conversation_display_name(conversation) ==
    LET name == Strip(Get(conversation, "name", <<>>), SpaceChars)
        messages == Get(conversation, "chat_messages", <<>>)
        withContent == {i \in HumanIndices(messages) :
                          format_message_content(messages[i]) # <<>>}
        conv_id == Get(conversation, "uuid", T_unknown)
        short_id == IF Len(conv_id) >= 8 THEN LastN(conv_id, 8) ELSE conv_id
    IN IF name # <<>> THEN name
       ELSE IF withContent # {}
       THEN NameFromMessage(format_message_content(messages[Min(withContent)]))
       ELSE T_untitled_conversation \o <<" ">> \o short_id

----------------------------------------------------------------------------
(* Content filter *)

\* a faulty variant, for comparison: any conversation with messages counts as meaningful
has_meaningful_content_anymsg(conversation) ==
    Get(conversation, "chat_messages", <<>>) # <<>>

\* the loop of lines 525-530 from message i on
RECURSIVE AnyContentFrom(_, _)
AnyContentFrom(messages, i) ==
    IF i > Len(messages) THEN FALSE
    ELSE LET content == format_message_content(messages[i])
         IN IF content # <<>> /\ Strip(content, SpaceChars) # <<>>
            THEN TRUE
            ELSE AnyContentFrom(messages, i + 1)

has_meaningful_content(conversation) ==
    LET messages == Get(conversation, "chat_messages", <<>>)
    IN IF messages = <<>> THEN FALSE ELSE AnyContentFrom(messages, 1)

----------------------------------------------------------------------------
(* Inputs of the pure-function harness *)

\* all sequences over S of length at most n
SeqsUpTo(S, n) == UNION {[1..k -> S] : k \in 0..n}

\* one character of each class safe_filename tells apart: word, underscore,
\* whitespace, reserved, other punctuation, dot
TextAlphabet == {"a", "_", " ", "?", "!", "."}

\* texts around the max_length boundary: an optional leading underscore, nothing
\* or max_length - 1 letters, then every tail of at most MaxText characters
FnTexts ==
    {h \o Fill(k) \o t : h \in {<<>>, <<"_">>},
                         k \in {0, DefaultMaxLength - 1},
                         t \in SeqsUpTo(TextAlphabet, MaxText)}

X_hello == <<"H","e","l","l","o"," ","w","o","r","l","d">>

X_hi == <<"H","i">>

X_plan == <<"M","y"," ","P","l","a","n">>

X_plan_bang == <<"M","y"," ","P","l","a","n","!">>

X_padded_plan == <<" ","M","y"," ","P","l","a","n"," ">>

\* "run" and an inline code span
X_inline == <<"r","u","n"," ",Tick,"x",Tick>>

\* a fenced code block over two lines, then "ok"
X_fenced == <<Tick,Tick,Tick,"x","\n","y",Tick,Tick,Tick,"\n","\n","o","k">>

\* NameLength + 1 letters
X_long == Fill(NameLength + 1)

\* NameLength - 1 letters, a space, two letters: the cut leaves a trailing space
X_long_space == Fill(NameLength - 1) \o <<" ","b","c">>

\* exactly NameLength letters
X_exact == Fill(NameLength)

\* SummaryLength - 1 letters, a space, two letters: the cut leaves a trailing space
X_summary_space == Fill(SummaryLength - 1) \o <<" ","b","c">>

FnMessages ==
    { [sender |-> "human", text |-> X_hello],
      [sender |-> "assistant", text |-> X_hi],
      [sender |-> "human", text |-> <<" "," ">>, content |-> [t |-> "str", v |-> <<"x">>]],
      [sender |-> "human",
       content |-> [t |-> "list",
                    v |-> << [type |-> "text", text |-> <<"a">>],
                             [type |-> "tool_use", text |-> <<"z">>],
                             [type |-> "text", text |-> <<"b">>] >>]],
      [sender |-> "human", text |-> <<>>, content |-> [t |-> "str", v |-> <<" ","h","i"," ">>]],
      [sender |-> "human", text |-> X_long],
      [sender |-> "human", text |-> X_long_space],
      [sender |-> "human", text |-> X_exact],
      [sender |-> "human", text |-> X_summary_space],
      [sender |-> "human", text |-> X_fenced \o <<" ">> \o X_inline],
      [sender |-> "assistant", content |-> [t |-> "other"]],
      [sender |-> "human"] }

\* content blocks: two with text, one with the empty text, one of another type,
\* one without the key text, one without the key type
FnBlocks ==
    { [type |-> "text", text |-> <<"a">>],
      [type |-> "text", text |-> <<"b","c">>],
      [type |-> "text", text |-> <<>>],
      [type |-> "tool_use", text |-> <<"z">>],
      [type |-> "text"],
      [text |-> <<"q">>] }

FnBlockSeqs == SeqsUpTo(FnBlocks, MaxBlocks)

FnNames == {<<>>, <<" ">>, X_padded_plan}

FnIds == {<<"a","b","c","1","2","3","4","5">>, <<"a","b","c">>, <<"0","1","2","3","4","5","6","7","8","9">>}

FnConversations ==
    {[uuid |-> u, name |-> n, chat_messages |-> m] :
        u \in FnIds, n \in FnNames, m \in SeqsUpTo(FnMessages, MaxMsgs)}

----------------------------------------------------------------------------
(* The pure-function harness: one call of one function on one argument *)

\* the program is not running while a function is applied on its own
ProgIdle ==
    /\ argv = <<>>
    /\ pc = "idle"
    /\ idx = 1
    /\ conversations = [t |-> "array", v |-> <<>>]
    /\ projects = [t |-> "array", v |-> <<>>]
    /\ users = [t |-> "array", v |-> <<>>]
    /\ conversations_found = FALSE
    /\ exit_code = -1
    /\ out = <<>>
    /\ written = {}
    /\ now = 0
    /\ run = 0
    /\ prev = [argv |-> <<>>, out |-> <<>>]

FnIdle ==
    /\ fn_op = "none"
    /\ fn_in = [kind |-> "none"]
    /\ fn_res = <<>>

InitFn ==
    /\ ProgIdle
    /\ fn_op = "none"
    /\ fn_res = <<>>
    /\ \/ \E t \in FnTexts : fn_in = [kind |-> "text", v |-> t]
       \/ \E c \in FnConversations : fn_in = [kind |-> "conv", v |-> c]
       \/ \E b \in FnBlockSeqs : fn_in = [kind |-> "blocks", v |-> b]

ApplySafeFilename ==
    /\ fn_op = "none"
    /\ fn_in.kind = "text"
    /\ fn_op' = "safe_filename"
    /\ fn_res' = SafeFilename(fn_in.v)
    /\ UNCHANGED <<fn_in, progVars>>

ApplyDisplayName ==
    /\ fn_op = "none"
    /\ fn_in.kind = "conv"
    /\ fn_op' = "display_name"
    /\ fn_res' = get_conversation_display_name(fn_in.v)
    /\ UNCHANGED <<fn_in, progVars>>

ApplyHasMeaningfulContent ==
    /\ fn_op = "none"
    /\ fn_in.kind = "conv"
    /\ fn_op' = "has_meaningful_content"
    /\ fn_res' = has_meaningful_content(fn_in.v)
    /\ UNCHANGED <<fn_in, progVars>>

ApplySummary ==
    /\ fn_op = "none"
    /\ fn_in.kind = "conv"
    /\ fn_op' = "summary"
    /\ fn_res' = get_conversation_summary(fn_in.v)
    /\ UNCHANGED <<fn_in, progVars>>

ApplyExtractMessageText ==
    /\ fn_op = "none"
    /\ fn_in.kind = "blocks"
    /\ fn_op' = "extract_message_text"
    /\ fn_res' = extract_message_text(fn_in.v)
    /\ UNCHANGED <<fn_in, progVars>>

NextFn ==
    \/ ApplySafeFilename
    \/ ApplyDisplayName
    \/ ApplyHasMeaningfulContent
    \/ ApplySummary
    \/ ApplyExtractMessageText

SpecFn == InitFn /\ [][NextFn]_vars

----------------------------------------------------------------------------
(* C4 *)

\* s sanitizes to the empty string: it holds no character that survives as
\* something other than an underscore
SanitizesToEmpty(s) ==
    \A i \in DOMAIN s : s[i] \notin (WordChars \cup {"-", "."}) \ {"_"}

\* C4: safe_filename(s) with the default max_length holds no reserved path
\* character, is at most 100 characters long, is not empty, neither starts nor
\* ends with an underscore, and is "untitled" when s sanitizes to empty.
C4_SafeFilenameIsSafe ==
    fn_op = "safe_filename" =>
        /\ \A i \in DOMAIN fn_res : fn_res[i] \notin ReservedChars
        /\ Len(fn_res) <= 100
        /\ fn_res # <<>>
        /\ fn_res[1] # "_"
        /\ fn_res[Len(fn_res)] # "_"
        /\ (SanitizesToEmpty(fn_in.v) => fn_res = T_untitled)

\* a text longer than 100 characters whose cut at 100 ends in an underscore
C4_Witness ==
    /\ fn_op = "safe_filename"
    /\ Len(fn_in.v) > 100
    /\ fn_in.v[1] = "a"
    /\ fn_in.v[100] = "_"
    /\ Len(fn_res) = 99

----------------------------------------------------------------------------
(* C6 *)

\* C6: has_meaningful_content is false for a conversation without messages,
\* false when every message formats to the empty text, and true exactly when
\* some message's formatted content is non-empty after trimming.
C6_MeaningfulIffSomeContent ==
    fn_op = "has_meaningful_content" =>
        LET messages == Get(fn_in.v, "chat_messages", <<>>)
            formatted == [i \in DOMAIN messages |-> format_message_content(messages[i])]
        IN /\ (messages = <<>> => fn_res = FALSE)
           /\ ((\A i \in DOMAIN messages : formatted[i] = <<>>) => fn_res = FALSE)
           /\ (fn_res = TRUE <=>
                 \E i \in DOMAIN messages : Strip(formatted[i], SpaceChars) # <<>>)

\* a conversation of two messages that both format to the empty text
C6_Witness ==
    /\ fn_op = "has_meaningful_content"
    /\ Len(fn_in.v.chat_messages) = 2
    /\ \A i \in 1..2 : format_message_content(fn_in.v.chat_messages[i]) = <<>>
    /\ fn_res = FALSE

----------------------------------------------------------------------------
(* C5 *)

\* the index of the first human message whose formatted content is non-empty,
\* 0 when there is none
FirstHumanWithContent(messages) ==
    LET hit(i) == /\ Get(messages[i], "sender", "") = "human"
                  /\ format_message_content(messages[i]) # <<>>
    IN IF \E i \in DOMAIN messages : hit(i)
       THEN CHOOSE i \in DOMAIN messages : hit(i) /\ \A j \in 1..(i-1) : ~hit(j)
       ELSE 0

\* C5 as stated: the name taken from a message is its cleaned text cut to 50
\* characters, so at most 50 characters long.
C5_NameCutToFifty ==
    fn_op = "display_name" =>
        LET raw == Strip(Get(fn_in.v, "name", <<>>), SpaceChars)
            messages == Get(fn_in.v, "chat_messages", <<>>)
            first == FirstHumanWithContent(messages)
            id == fn_in.v.uuid
        IN IF raw # <<>> THEN fn_res = raw
           ELSE IF first # 0
           THEN /\ fn_res = Take(CleanMessage(format_message_content(messages[first])), 50)
                /\ Len(fn_res) <= 50
           ELSE fn_res = T_untitled_conversation \o <<" ">> \o LastN(id, 8)

\* C5 amended: display_name returns the trimmed raw name if it is non-empty;
\* otherwise the cleaned text of the first human message with non-empty formatted
\* content, unchanged when it is at most 50 characters long and else its first 50
\* characters, trailing whitespace trimmed, followed by "..." (so at most 53
\* characters); otherwise "Untitled Conversation " and the last 8 characters of
\* the id (the whole id when it is shorter).
C5_DisplayName ==
    fn_op = "display_name" =>
        LET raw == Strip(Get(fn_in.v, "name", <<>>), SpaceChars)
            messages == Get(fn_in.v, "chat_messages", <<>>)
            first == FirstHumanWithContent(messages)
            clean == CleanMessage(format_message_content(messages[first]))
            id == fn_in.v.uuid
        IN IF raw # <<>> THEN fn_res = raw
           ELSE IF first # 0
           THEN /\ Len(fn_res) <= 53
                /\ IF Len(clean) <= 50
                   THEN fn_res = clean
                   ELSE fn_res = RStrip(Take(clean, 50), SpaceChars) \o T_ellipsis
           ELSE /\ Len(id) >= 8 => fn_res = T_untitled_conversation \o <<" ">> \o LastN(id, 8)
                /\ Len(id) < 8 => fn_res = T_untitled_conversation \o <<" ">> \o id

\* an unnamed conversation whose second message is the first human message with
\* content, longer than 50 characters: the name is 53 characters long
C5_Witness ==
    /\ fn_op = "display_name"
    /\ Strip(fn_in.v.name, SpaceChars) = <<>>
    /\ FirstHumanWithContent(fn_in.v.chat_messages) = 2
    /\ Len(fn_res) = 53

----------------------------------------------------------------------------
(* Input records of the program runs.  A timestamp is the rank of its ISO string *)
(* in string order, 0 for the empty string.                                     *)

C_hello ==
    [uuid |-> <<"a","b","c","1","2","3","4","5">>, name |-> <<>>, created_at |-> 2, updated_at |-> 2,
     chat_messages |-> << [sender |-> "human", text |-> X_hello] >>]

\* no messages at all, most recently updated
C_empty ==
    [uuid |-> <<"e","0","0","0","0","0","0","1">>, name |-> <<"E","m","p","t","y">>, created_at |-> 5, updated_at |-> 5,
     chat_messages |-> <<>>]

\* one message that formats to the empty text
C_blank ==
    [uuid |-> <<"b","0","0","0","0","0","0","2">>, name |-> <<>>, created_at |-> 1, updated_at |-> 1,
     chat_messages |-> << [sender |-> "human", text |-> <<" ">>] >>]

C_plan ==
    [uuid |-> <<"p","0","0","0","0","0","0","3">>, name |-> X_plan, created_at |-> 3, updated_at |-> 3,
     chat_messages |-> << [sender |-> "human", text |-> X_hi] >>]

\* its name sanitizes to the same file name as C_plan's
C_plan_bang ==
    [uuid |-> <<"q","0","0","0","0","0","0","4">>, name |-> X_plan_bang, created_at |-> 4, updated_at |-> 4,
     chat_messages |-> << [sender |-> "assistant", text |-> X_hi],
                          [sender |-> "human",
                           content |-> [t |-> "list",
                                        v |-> << [type |-> "text", text |-> X_hello] >>]] >>]

D_readme == [uuid |-> <<"d","1">>, filename |-> <<"r","e","a","d"," ","m","e",".","t","x","t">>, content |-> X_hello, created_at |-> 1]

D_empty == [uuid |-> <<"d","2">>, filename |-> <<"n","o","t","e","s">>, content |-> <<>>, created_at |-> 2]

P_plan == [uuid |-> <<"p","p">>, name |-> X_plan, created_at |-> 1, docs |-> <<>>]

P_plan_bang == [uuid |-> <<"p","q">>, name |-> X_plan_bang, created_at |-> 2, docs |-> << D_readme >>]

\* a project with an empty name and two documents
P_unnamed == [uuid |-> <<"p","u">>, name |-> <<>>, created_at |-> 3, docs |-> << D_readme, D_empty >>]

\* its name is the parent-directory segment; one document
P_dotdot == [uuid |-> <<"p","d">>, name |-> <<".",".">>, created_at |-> 4, docs |-> << D_readme >>]

\* its name is the current-directory segment, between underscores and a space
P_dot == [uuid |-> <<"p","c">>, name |-> <<"_","."," ">>, created_at |-> 5, docs |-> <<>>]

\* a project without the key name
P_noname == [uuid |-> <<"p","n">>, created_at |-> 6, docs |-> <<>>]

U_one == [uuid |-> <<"u","1">>, full_name |-> <<"A","n","n">>]

\* a parsed JSON document is tagged with its type: an array carries its
\* elements, a scalar (null, a number, true) has no length
Array(v) == [t |-> "array", v |-> v]

Scalar == [t |-> "scalar"]

N_conversations == <<"c","o","n","v","e","r","s","a","t","i","o","n","s",".","j","s","o","n">>

N_Conversations_upper == <<"C","o","n","v","e","r","s","a","t","i","o","n","s",".","J","S","O","N">>

N_project_conversation == <<"p","r","o","j","e","c","t","_","c","o","n","v","e","r","s","a","t","i","o","n",".","j","s","o","n">>

N_projects == <<"p","r","o","j","e","c","t","s",".","j","s","o","n">>

N_user_projects == <<"u","s","e","r","_","p","r","o","j","e","c","t","s",".","j","s","o","n">>

N_users == <<"u","s","e","r","s",".","j","s","o","n">>

N_data == <<"d","a","t","a",".","j","s","o","n">>

\* a file of the disk: its path (directory, base name), what opening and parsing
\* it gives (missing, ioerror, malformed, ok) and the document it holds
File(dir, name, status, data) ==
    [dir |-> dir, name |-> name, status |-> status, data |-> data]

F_hello == File("a", N_conversations, "ok", Array(<< C_hello >>))

F_empty_hello == File("b", N_conversations, "ok", Array(<< C_empty, C_hello >>))

F_plans == File("c", N_Conversations_upper, "ok", Array(<< C_plan, C_plan_bang >>))

F_plans_reversed ==
    File("d", N_project_conversation, "ok", Array(<< C_plan_bang, C_blank, C_plan >>))

F_nothing_meaningful == File("e", N_conversations, "ok", Array(<< C_blank, C_empty >>))

F_conv_malformed == File("f", N_conversations, "malformed", Array(<<>>))

F_conv_scalar == File("g", N_conversations, "ok", Scalar)

F_conv_missing == File("h", N_conversations, "missing", Array(<<>>))

F_projects == File("a", N_projects, "ok", Array(<< P_plan, P_plan_bang >>))

F_projects_docs == File("b", N_user_projects, "ok", Array(<< P_plan_bang, P_unnamed, P_plan >>))

F_projects_ioerror == File("c", N_projects, "ioerror", Array(<<>>))

F_projects_odd == File("d", N_projects, "ok", Array(<< P_dotdot, P_noname, P_dot >>))

F_users == File("a", N_users, "ok", Array(<< U_one >>))

\* the directory is named conversations, the file is not
F_unknown == File("conversations", N_data, "ok", Array(<< C_plan >>))

FilePool ==
    { F_hello, F_empty_hello, F_plans, F_plans_reversed, F_nothing_meaningful,
      F_conv_malformed, F_conv_scalar, F_conv_missing,
      F_projects, F_projects_docs, F_projects_ioerror, F_projects_odd,
      F_users, F_unknown }

\* the command lines of a first run
Argvs == SeqsUpTo(FilePool, MaxFiles)

\* the command lines of the runs that share an output directory
SharedDirArgvs ==
    { << F_hello >>,
      << F_plans, F_projects >>,
      << F_plans_reversed, F_projects_docs >>,
      << F_empty_hello, F_users >>,
      << F_conv_missing, F_projects >>,
      << F_hello, F_conv_scalar >> }

----------------------------------------------------------------------------
(* Record loader *)

T_conversation == <<"c","o","n","v","e","r","s","a","t","i","o","n">>

T_project == <<"p","r","o","j","e","c","t">>

T_user == <<"u","s","e","r">>

detect_file_type(file_path) ==
    LET filename == Lower(file_path.name)
    IN IF Contains(filename, T_conversation) THEN "conversations"
       ELSE IF Contains(filename, T_project) THEN "projects"
       ELSE IF Contains(filename, T_user) THEN "users"
       ELSE "unknown"

\* json.load returned for this file: it exists, opens and parses
Parsed(file) == file.status = "ok"

\* a faulty variant, for comparison: a file of a kind is appended to what earlier files of the kind gave
LoadedValue_merge(old, data) ==
    IF old.t = "array" /\ data.t = "array" THEN Array(old.v \o data.v) ELSE data

\* lines 59, 64, 68: the parsed document replaces the collection
LoadedValue(old, data) == data

\* line 60, under the conditions of lines 47, 56 and 58
FoundAfter(found, file) ==
    found \/ (Parsed(file) /\ detect_file_type(file) = "conversations")

\* len() of a collection raises TypeError on a scalar
HasLen(collection) == collection.t = "array"

----------------------------------------------------------------------------
(* Document renderer.  A rendered document is a record of the values its     *)
(* markdown text is built from.                                              *)

S_README == <<"R","E","A","D","M","E",".","m","d">>

S_projects == <<"p","r","o","j","e","c","t","s">>

S_project_info == <<"p","r","o","j","e","c","t","_","i","n","f","o",".","m","d">>

S_docs == <<"d","o","c","s">>

S_conversations == <<"c","o","n","v","e","r","s","a","t","i","o","n","s">>

S_standalone == <<"s","t","a","n","d","a","l","o","n","e","_","c","o","n","v","e","r","s","a","t","i","o","n","s">>

S_metadata == <<"m","e","t","a","d","a","t","a">>

S_projects_index == <<"p","r","o","j","e","c","t","s","_","i","n","d","e","x",".","m","d">>

S_conversations_index == <<"c","o","n","v","e","r","s","a","t","i","o","n","s","_","i","n","d","e","x",".","m","d">>

S_user_info == <<"u","s","e","r","_","i","n","f","o",".","m","d">>

\* number of conversations the README lists
RecentCount == 10

format_date(date_string) ==
    IF date_string = 0 THEN [text |-> "Unknown date"]
    ELSE [text |-> "formatted", of |-> date_string]

\* sum(len(conv.get('chat_messages', [])) for conv in convs)
RECURSIVE TotalMessages(_)
TotalMessages(convs) ==
    IF convs = <<>> THEN 0
    ELSE Len(Get(convs[1], "chat_messages", <<>>)) + TotalMessages(Tail(convs))

\* x put into a list sorted descending by key, behind the elements whose key is
\* not smaller (sorted(..., reverse=True) keeps the order of equal keys)
InsertDesc(sorted, x, key) ==
    LET smaller == {i \in DOMAIN sorted : Get(sorted[i], key, 0) < Get(x, key, 0)}
        at == IF smaller = {} THEN Len(sorted) + 1 ELSE Min(smaller)
    IN SubSeq(sorted, 1, at - 1) \o <<x>> \o SubSeq(sorted, at, Len(sorted))

RECURSIVE SortedDesc(_, _)
SortedDesc(records, key) ==
    IF records = <<>> THEN <<>>
    ELSE InsertDesc(SortedDesc(SubSeq(records, 1, Len(records) - 1), key),
                    records[Len(records)], key)

ProjectDir(name) == <<S_projects, SafeFilename(name)>>

\* the block of lines 346-360 and of lines 672-687
ProjectLine(project) ==
    LET name == Get(project, "name", T_untitled_project)
    IN [name |-> name,
        link |-> ProjectDir(name) \o <<S_project_info>>,
        created |-> format_date(Get(project, "created_at", 0)),
        documents |-> Len(Get(project, "docs", <<>>))]

_create_projects_section(projs) ==
    LET sorted_projects == SortedDesc(projs, "created_at")
    IN [i \in DOMAIN sorted_projects |-> ProjectLine(sorted_projects[i])]

\* the line of lines 377-384
RecentLine(conv) ==
    LET name == Get(conv, "name", T_untitled_conversation)
    IN [name |-> name,
        link |-> <<S_conversations, S_standalone, SafeFilename(name) \o T_md>>,
        summary |-> get_conversation_summary(conv),
        updated |-> format_date(Get(conv, "updated_at", 0))]

_create_recent_conversations_section(convs) ==
    LET recent_conversations == Take(SortedDesc(convs, "updated_at"), RecentCount)
    IN [i \in DOMAIN recent_conversations |-> RecentLine(recent_conversations[i])]

ReadmeContent(convs, projs, usrs, clock) ==
    [kind |-> "readme",
     generated_on |-> clock,
     user |-> IF usrs = <<>> THEN <<>> ELSE <<usrs[1]>>,
     total_projects |-> Len(projs),
     total_conversations |-> Len(convs),
     total_messages |-> TotalMessages(convs),
     projects |-> _create_projects_section(projs),
     recent |-> _create_recent_conversations_section(convs)]

_create_project_docs_section(docs) ==
    [i \in DOMAIN docs |->
        LET filename == Get(docs[i], "filename", T_untitled_document)
        IN [filename |-> filename,
            link |-> <<S_docs, SafeFilename(filename) \o T_md>>,
            created |-> format_date(Get(docs[i], "created_at", 0))]]

ProjectInfoContent(project) ==
    [kind |-> "project_info",
     name |-> Get(project, "name", T_untitled_project),
     created |-> format_date(Get(project, "created_at", 0)),
     id |-> Get(project, "uuid", T_Unknown),
     docs |-> _create_project_docs_section(Get(project, "docs", <<>>))]

DocumentContent(doc) ==
    [kind |-> "document",
     filename |-> Get(doc, "filename", T_untitled_document),
     created |-> format_date(Get(doc, "created_at", 0)),
     id |-> Get(doc, "uuid", T_Unknown),
     content |-> Get(doc, "content", <<>>)]

SenderLabel(sender) ==
    CASE sender = "human" -> "Human"
      [] sender = "assistant" -> "Assistant"
      [] OTHER -> sender

_create_messages_section(messages) ==
    [i \in DOMAIN messages |->
        [number |-> i,
         sender |-> SenderLabel(Get(messages[i], "sender", "unknown")),
         content |-> format_message_content(messages[i])]]

ConversationContent(conversation) ==
    [kind |-> "conversation",
     name |-> get_conversation_display_name(conversation),
     created |-> format_date(Get(conversation, "created_at", 0)),
     updated |-> format_date(Get(conversation, "updated_at", 0)),
     id |-> Get(conversation, "uuid", T_Unknown),
     messages |-> _create_messages_section(Get(conversation, "chat_messages", <<>>))]

ConversationPath(conversation) ==
    <<S_conversations, S_standalone,
      SafeFilename(get_conversation_display_name(conversation)) \o T_md>>

ProjectsIndexContent(projs) ==
    [kind |-> "projects_index",
     total |-> Len(projs),
     entries |-> _create_projects_section(projs)]

\* the line of lines 718-725
IndexLine(conversation) ==
    LET name == get_conversation_display_name(conversation)
    IN [name |-> name,
        link |-> <<S_conversations, S_standalone, SafeFilename(name) \o T_md>>,
        summary |-> get_conversation_summary(conversation),
        updated |-> format_date(Get(conversation, "updated_at", 0))]

\* a faulty variant, for comparison: the index carries the time it was generated
ConversationsIndexContent_stamped(convs) ==
    LET sorted_conversations == SortedDesc(convs, "updated_at")
    IN [kind |-> "conversations_index",
        generated_on |-> now,
        total |-> Len(convs),
        total_messages |-> TotalMessages(convs),
        entries |-> [i \in DOMAIN sorted_conversations |->
                        IndexLine(sorted_conversations[i])]]

ConversationsIndexContent(convs) ==
    LET sorted_conversations == SortedDesc(convs, "updated_at")
    IN [kind |-> "conversations_index",
        total |-> Len(convs),
        total_messages |-> TotalMessages(convs),
        entries |-> [i \in DOMAIN sorted_conversations |->
                        IndexLine(sorted_conversations[i])]]

UserInfoContent(usrs) == [kind |-> "user_info", users |-> usrs]

----------------------------------------------------------------------------
(* Archive builder *)

\* a faulty variant, for comparison: a file that exists is left as it is (exclusive creation)
WriteFile_keep(fs, path, content) ==
    [q \in DOMAIN fs \cup {path} |-> IF q \in DOMAIN fs THEN fs[q] ELSE content]

\* open(path, 'w') and write: the file is created or replaced
WriteFile(fs, path, content) ==
    [q \in DOMAIN fs \cup {path} |-> IF q = path THEN content ELSE fs[q]]

\* a sequence of writes, each [path, content], applied in order
RECURSIVE WriteAll(_, _)
WriteAll(fs, writes) ==
    IF writes = <<>> THEN fs
    ELSE WriteAll(WriteFile(fs, writes[1].path, writes[1].content), Tail(writes))

\* the elements of a sequence of writes
WritesOf(writes) == {writes[i] : i \in DOMAIN writes}

\* line 760, mkdir(parents=True, exist_ok=True): the faulty variant empties a directory
\* that exists
MakeOutputDir_clean(fs) == <<>>

\* line 760, mkdir(parents=True, exist_ok=True): a directory that exists is kept
\* with what it holds
MakeOutputDir(fs) == fs

S_dot == <<".">>

S_dotdot == <<".", ".">>

\* the file the operating system opens for a path relative to the output
\* directory: a segment "." names the directory it is in, a segment ".." the
\* parent of that directory (kept when the path leaves the output directory)
RECURSIVE ResolveFrom(_, _)
ResolveFrom(stack, path) ==
    IF path = <<>> THEN stack
    ELSE IF Head(path) = S_dot THEN ResolveFrom(stack, Tail(path))
    ELSE IF Head(path) = S_dotdot /\ stack # <<>> /\ stack[Len(stack)] # S_dotdot
    THEN ResolveFrom(SubSeq(stack, 1, Len(stack) - 1), Tail(path))
    ELSE ResolveFrom(Append(stack, Head(path)), Tail(path))

Resolve(path) == ResolveFrom(<<>>, path)

\* lines 395-409 for one project: project_info.md, then its documents; each
\* path is the file that open() creates for it
ProjectWrites(project) ==
    LET project_dir == ProjectDir(Get(project, "name", T_untitled_project))
        docs == Get(project, "docs", <<>>)
    IN << [path |-> Resolve(project_dir \o <<S_project_info>>),
           content |-> ProjectInfoContent(project)] >>
       \o [i \in DOMAIN docs |->
             [path |-> Resolve(project_dir \o
                       <<S_docs,
                         SafeFilename(Get(docs[i], "filename", T_untitled_document)) \o T_md>>),
              content |-> DocumentContent(docs[i])]]

RECURSIVE ProjectsWrites(_)
ProjectsWrites(projs) ==
    IF projs = <<>> THEN <<>>
    ELSE ProjectWrites(projs[1]) \o ProjectsWrites(Tail(projs))

\* a faulty variant, for comparison: nothing is filtered out
MeaningfulConversations_all(convs) == convs

\* line 547
MeaningfulConversations(convs) ==
    SelectSeq(convs, LAMBDA conv : has_meaningful_content(conv))

ConversationWrites(convs) ==
    [i \in DOMAIN convs |->
        [path |-> ConversationPath(convs[i]), content |-> ConversationContent(convs[i])]]

MetadataWrites(convs, projs, usrs) ==
    << [path |-> <<S_metadata, S_projects_index>>, content |-> ProjectsIndexContent(projs)],
       [path |-> <<S_metadata, S_conversations_index>>,
        content |-> ConversationsIndexContent(convs)],
       [path |-> <<S_metadata, S_user_info>>, content |-> UserInfoContent(usrs)] >>

----------------------------------------------------------------------------
(* The program: main() run into an output directory, possibly several times *)

\* the state of a first run on one of the command lines argvs, into an empty
\* output directory
InitOn(argvs) ==
    /\ argv \in argvs
    /\ pc = "load"
    /\ idx = 1
    /\ conversations = Array(<<>>)
    /\ projects = Array(<<>>)
    /\ users = Array(<<>>)
    /\ conversations_found = FALSE
    /\ exit_code = -1
    /\ out = <<>>
    /\ written = {}
    /\ now = 0
    /\ run = 1
    /\ prev = [argv |-> <<>>, out |-> <<>>]
    /\ FnIdle

\* one iteration of the loop of load_data, lines 46-80
LoadFile ==
    /\ pc = "load"
    /\ idx <= Len(argv)
    /\ LET file == argv[idx]
           file_type == detect_file_type(file)
       IN /\ conversations' = IF Parsed(file) /\ file_type = "conversations"
                              THEN LoadedValue(conversations, file.data)
                              ELSE conversations
          /\ projects' = IF Parsed(file) /\ file_type = "projects"
                         THEN LoadedValue(projects, file.data)
                         ELSE projects
          /\ users' = IF Parsed(file) /\ file_type = "users"
                      THEN LoadedValue(users, file.data)
                      ELSE users
          /\ conversations_found' = FoundAfter(conversations_found, file)
    /\ idx' = idx + 1
    /\ UNCHANGED <<argv, pc, exit_code, out, written, now, run, prev, fnVars>>

\* lines 83-86: no conversations file, sys.exit(1)
LoadFailed ==
    /\ pc = "load"
    /\ idx > Len(argv)
    /\ ~conversations_found
    /\ pc' = "exit"
    /\ exit_code' = 1
    /\ UNCHANGED <<argv, idx, conversations, projects, users, conversations_found,
                   out, written, now, run, prev, fnVars>>

\* lines 88-91: len() of a collection that holds a scalar raises TypeError,
\* which nothing catches
LoadCrashed ==
    /\ pc = "load"
    /\ idx > Len(argv)
    /\ conversations_found
    /\ ~(HasLen(conversations) /\ HasLen(projects) /\ HasLen(users))
    /\ pc' = "crashed"
    /\ exit_code' = 1
    /\ UNCHANGED <<argv, idx, conversations, projects, users, conversations_found,
                   out, written, now, run, prev, fnVars>>

\* lines 88-91, then analyze_relationships and print_summary, which change nothing
LoadDone ==
    /\ pc = "load"
    /\ idx > Len(argv)
    /\ conversations_found
    /\ HasLen(conversations) /\ HasLen(projects) /\ HasLen(users)
    /\ pc' = "readme"
    /\ UNCHANGED <<argv, idx, conversations, projects, users, conversations_found,
                   exit_code, out, written, now, run, prev, fnVars>>

\* export_to_markdown lines 759-766
CreateReadme ==
    /\ pc = "readme"
    /\ LET writes == << [path |-> <<S_README>>,
                          content |-> ReadmeContent(conversations.v, projects.v,
                                                    users.v, now)] >>
       IN /\ out' = WriteAll(MakeOutputDir(out), writes)
          /\ written' = written \cup WritesOf(writes)
    /\ pc' = "projects"
    /\ UNCHANGED <<argv, idx, conversations, projects, users, conversations_found,
                   exit_code, now, run, prev, fnVars>>

\* export_to_markdown line 767
CreateProjectsStructure ==
    /\ pc = "projects"
    /\ LET writes == ProjectsWrites(projects.v)
       IN /\ out' = WriteAll(out, writes)
          /\ written' = written \cup WritesOf(writes)
    /\ pc' = "conversations"
    /\ UNCHANGED <<argv, idx, conversations, projects, users, conversations_found,
                   exit_code, now, run, prev, fnVars>>

\* export_to_markdown line 768
CreateConversationsStructure ==
    /\ pc = "conversations"
    /\ LET meaningful_conversations == MeaningfulConversations(conversations.v)
           writes == ConversationWrites(meaningful_conversations)
       IN /\ out' = WriteAll(out, writes)
          /\ written' = written \cup WritesOf(writes)
          /\ conversations' = Array(meaningful_conversations)
    /\ pc' = "metadata"
    /\ UNCHANGED <<argv, idx, projects, users, conversations_found,
                   exit_code, now, run, prev, fnVars>>

\* export_to_markdown line 769 and the return of main()
CreateMetadataFiles ==
    /\ pc = "metadata"
    /\ LET writes == MetadataWrites(conversations.v, projects.v, users.v)
       IN /\ out' = WriteAll(out, writes)
          /\ written' = written \cup WritesOf(writes)
    /\ pc' = "done"
    /\ exit_code' = 0
    /\ UNCHANGED <<argv, idx, conversations, projects, users, conversations_found,
                   now, run, prev, fnVars>>

\* the program is started again on the same output directory: a new process, a
\* new parser (lines 18-27), the directory as the last run left it
NewRun ==
    /\ pc \in {"done", "exit", "crashed"}
    /\ run < MaxRuns
    /\ \E a \in SharedDirArgvs : argv' = a
    /\ \E t \in {now, now + 1} : now' = t
    /\ prev' = [argv |-> argv, out |-> out]
    /\ run' = run + 1
    /\ pc' = "load"
    /\ idx' = 1
    /\ conversations' = Array(<<>>)
    /\ projects' = Array(<<>>)
    /\ users' = Array(<<>>)
    /\ conversations_found' = FALSE
    /\ exit_code' = -1
    /\ written' = {}
    /\ UNCHANGED <<out, fnVars>>

Next ==
    \/ LoadFile
    \/ LoadFailed
    \/ LoadCrashed
    \/ LoadDone
    \/ CreateReadme
    \/ CreateProjectsStructure
    \/ CreateConversationsStructure
    \/ CreateMetadataFiles

\* one run on any command line of at most MaxFiles files
Init == InitOn(Argvs)

Spec == Init /\ [][Next]_vars

\* up to MaxRuns runs, one after the other, into the same output directory
InitRerun == InitOn(SharedDirArgvs)

NextRerun ==
    \/ LoadFile
    \/ LoadFailed
    \/ LoadCrashed
    \/ LoadDone
    \/ CreateReadme
    \/ CreateProjectsStructure
    \/ CreateConversationsStructure
    \/ CreateMetadataFiles
    \/ NewRun

SpecRerun == InitRerun /\ [][NextRerun]_vars

----------------------------------------------------------------------------
(* Vocabulary of the claims about a run *)

\* what the files of the first n arguments leave in a collection: the document
\* of the last one of the kind that parsed, the empty list when there is none
LastParsed(kind, n) ==
    LET hits == {i \in 1..n : Parsed(argv[i]) /\ detect_file_type(argv[i]) = kind}
    IN IF hits = {} THEN Array(<<>>) ELSE argv[Max(hits)].data

\* the conversations load_data returned with
LoadedConversations == LastParsed("conversations", Len(argv)).v

\* the indices of the loaded conversations that pass the filter
Survivors ==
    {i \in DOMAIN LoadedConversations : has_meaningful_content(LoadedConversations[i])}

PathsWritten == {w.path : w \in written}

IsUnder(path, dir) == Len(path) > Len(dir) /\ SubSeq(path, 1, Len(dir)) = dir

StandaloneDir == <<S_conversations, S_standalone>>

IndexPath == <<S_metadata, S_conversations_index>>

\* the file create_project_info writes for a project
ProjectInfoPath(project) ==
    Resolve(ProjectDir(Get(project, "name", T_untitled_project)) \o <<S_project_info>>)

----------------------------------------------------------------------------
(* C1 *)

\* C1: after a full export the README counts the conversations that pass the
\* filter, and lists no conversation that fails it among the recent ones.
C1_ReadmeReflectsFilter ==
    pc = "done" =>
        LET readme == out[<<S_README>>]
            loaded == LoadedConversations
            passing == Survivors
        IN /\ readme.total_conversations = Cardinality(passing)
           /\ \A i \in DOMAIN loaded \ passing :
                 \A k \in DOMAIN readme.recent :
                    readme.recent[k] # RecentLine(loaded[i])

----------------------------------------------------------------------------
(* C2 *)

\* C2: after a full export a conversation that fails the filter has no file
\* written under standalone_conversations and no entry in the conversations
\* index, and the index counts the conversations that pass the filter.
C2_FilteredOutOfFilesAndIndex ==
    pc = "done" =>
        LET index == out[IndexPath]
            loaded == LoadedConversations
            passing == Survivors
        IN /\ \A i \in DOMAIN loaded \ passing :
                 /\ \A w \in written :
                       IsUnder(w.path, StandaloneDir) => w.content.id # loaded[i].uuid
                 /\ \A k \in DOMAIN index.entries :
                       index.entries[k] # IndexLine(loaded[i])
           /\ index.total = Cardinality(passing)
           /\ Len(index.entries) = Cardinality(passing)

\* an export of a conversation without messages next to one that passes
C2_Witness ==
    /\ pc = "done"
    /\ \E i \in DOMAIN LoadedConversations \ Survivors :
          LoadedConversations[i].chat_messages = <<>>
    /\ Survivors # {}
    /\ \E w \in written : IsUnder(w.path, StandaloneDir)

----------------------------------------------------------------------------
(* C3 *)

AnyConversationsParsed ==
    \E i \in DOMAIN argv : Parsed(argv[i]) /\ detect_file_type(argv[i]) = "conversations"

\* C3: the run ends in load_data with a non-zero status exactly when no file
\* named as conversations parsed; no single file aborts the run; in every other
\* case the run goes on to the export and exits 0.
C3_ExitIffNoConversations ==
    /\ (pc = "load" => exit_code = -1)
    /\ (pc \in {"exit", "crashed"} => exit_code = 1 /\ ~AnyConversationsParsed)
    /\ (pc \in {"readme", "projects", "conversations", "metadata"} =>
            exit_code = -1 /\ AnyConversationsParsed)
    /\ (pc = "done" => exit_code = 0 /\ AnyConversationsParsed)

----------------------------------------------------------------------------
(* C7 *)

\* C7 as stated: after an export into a directory an earlier run filled, the
\* files of the directory are exactly the files the current run produced.
C7_FreshRebuild ==
    (pc = "done" /\ run > 1) => DOMAIN out = PathsWritten

\* C7 amended: an export rewrites every file the current input produces with
\* content rendered in this run, and removes nothing: a file of an earlier run
\* at a path the current run does not write stays, with its content unchanged.
C7_RewriteInPlace ==
    pc = "done" =>
        LET paths == PathsWritten
            loaded == LoadedConversations
        IN /\ DOMAIN out = DOMAIN prev.out \cup paths
           /\ \A p \in DOMAIN prev.out \ paths : out[p] = prev.out[p]
           /\ \A p \in paths : \E w \in written : w.path = p /\ w.content = out[p]
           /\ {<<S_README>>, IndexPath, <<S_metadata, S_projects_index>>,
               <<S_metadata, S_user_info>>} \subseteq paths
           /\ \A i \in Survivors : ConversationPath(loaded[i]) \in paths
           /\ \A i \in DOMAIN projects.v :
                 ProjectInfoPath(projects.v[i]) \in paths

\* a second run on other input has left a project file and a conversation file
\* of the first run in place and has replaced the README
C7_Witness ==
    /\ pc = "done"
    /\ run = 2
    /\ \E p \in DOMAIN out \ PathsWritten : IsUnder(p, <<S_projects>>)
    /\ \E p \in DOMAIN out \ PathsWritten : IsUnder(p, StandaloneDir)
    /\ out[<<S_README>>] # prev.out[<<S_README>>]

----------------------------------------------------------------------------
(* C8 *)

\* C8: when two projects, or two conversations that pass the filter, get the
\* same path, the export ends without error and the file holds the content of
\* the one that comes later in the input.
C8_LaterRecordWins ==
    pc = "done" =>
        /\ exit_code = 0
        /\ \A i \in DOMAIN projects.v :
              LET same == {j \in DOMAIN projects.v :
                             ProjectInfoPath(projects.v[j]) = ProjectInfoPath(projects.v[i])}
              IN out[ProjectInfoPath(projects.v[i])] = ProjectInfoContent(projects.v[Max(same)])
        /\ LET loaded == LoadedConversations
               passing == Survivors
           IN \A i \in passing :
                 LET same == {j \in passing :
                                ConversationPath(loaded[j]) = ConversationPath(loaded[i])}
                 IN out[ConversationPath(loaded[i])] = ConversationContent(loaded[Max(same)])

\* an export of "My Plan" and "My Plan!" as projects and as conversations
C8_Witness ==
    /\ pc = "done"
    /\ \E i, j \in DOMAIN projects.v :
          /\ i < j
          /\ Get(projects.v[i], "name", <<>>) = X_plan
          /\ Get(projects.v[j], "name", <<>>) = X_plan_bang
          /\ out[ProjectInfoPath(projects.v[i])].name = X_plan_bang
    /\ \E i, j \in Survivors :
          /\ i < j
          /\ LoadedConversations[i].uuid # LoadedConversations[j].uuid
          /\ ConversationPath(LoadedConversations[i]) = ConversationPath(LoadedConversations[j])

----------------------------------------------------------------------------
(* C9 *)

\* a file without the README line "Export generated on"
WithoutGeneratedOn(content) ==
    IF content.kind = "readme" THEN [content EXCEPT !.generated_on = 0] ELSE content

\* C9: a second full run on the same input into the same directory leaves the
\* same files with the same content, the README line "Export generated on" aside.
C9_RerunReproduces ==
    (pc = "done" /\ run > 1 /\ argv = prev.argv) =>
        /\ DOMAIN out = DOMAIN prev.out
        /\ \A p \in DOMAIN out :
              WithoutGeneratedOn(out[p]) = WithoutGeneratedOn(prev.out[p])

\* a second run on the same projects and conversations, a minute later
C9_Witness ==
    /\ pc = "done"
    /\ run = 2
    /\ argv = prev.argv
    /\ out[<<S_README>>].generated_on # prev.out[<<S_README>>].generated_on
    /\ \E p \in DOMAIN out : IsUnder(p, StandaloneDir)
    /\ \E p \in DOMAIN out : IsUnder(p, <<S_projects>>)

----------------------------------------------------------------------------
(* C10 *)

\* C10: while and after load_data reads the files, each collection is the
\* document of the last file read so far that is of its kind and parsed, the
\* empty list when there is none: nothing is merged, and a file that is missing,
\* unrecognised or does not parse changes no collection.
C10_LastFileWins ==
    pc \in {"load", "readme", "exit", "crashed"} =>
        /\ conversations = LastParsed("conversations", idx - 1)
        /\ projects = LastParsed("projects", idx - 1)
        /\ users = LastParsed("users", idx - 1)

\* load_data has returned after two conversations files with different content
C10_Witness ==
    /\ pc = "readme"
    /\ Len(argv) = 2
    /\ \A i \in 1..2 : Parsed(argv[i]) /\ detect_file_type(argv[i]) = "conversations"
    /\ argv[1].data # argv[2].data
    /\ argv[1].data.v # <<>>
    /\ conversations = argv[2].data

----------------------------------------------------------------------------
(* C11 *)

\* the loaded conversations that pass the filter, in input order
FilteredConversations == MeaningfulConversations(LoadedConversations)

\* C11: in a run the conversation collection changes after loading in one step
\* only, the filter, and every step that renders the README, a conversation
\* file or the conversations index starts from the collection already replaced
\* by the filtered result and renders from it.
C11_FilterBeforeRendering ==
    [][ pc # "load" =>
          /\ (conversations' # conversations =>
                 conversations' = Array(FilteredConversations))
          /\ \A w \in written' \ written :
                /\ (w.content.kind = "readme" =>
                       /\ conversations = Array(FilteredConversations)
                       /\ w.content = ReadmeContent(FilteredConversations, projects.v,
                                                    users.v, now))
                /\ (w.content.kind = "conversation" =>
                       \E i \in DOMAIN FilteredConversations :
                          w.content = ConversationContent(FilteredConversations[i]))
                /\ (w.content.kind = "conversations_index" =>
                       /\ conversations = Array(FilteredConversations)
                       /\ w.content = ConversationsIndexContent(FilteredConversations))
      ]_vars

----------------------------------------------------------------------------
(* C12 *)

\* the index of the first message sent by human, 0 when there is none
FirstHuman(messages) ==
    LET human(i) == Get(messages[i], "sender", "") = "human"
    IN IF \E i \in DOMAIN messages : human(i)
       THEN CHOOSE i \in DOMAIN messages : human(i) /\ \A j \in 1..(i-1) : ~human(j)
       ELSE 0

\* C12 as stated: the summary of n >= 1 messages is "<n> messages" exactly when
\* no message is sent by human, and with a human message it is "<n> messages - "
\* and the cleaned content of the first human message, cut to 80 characters with
\* "..." appended when it was cut.
C12_SummaryIffHuman ==
    fn_op = "summary" =>
        LET messages == Get(fn_in.v, "chat_messages", <<>>)
            n == Len(messages)
            first == FirstHuman(messages)
            clean == CleanMessage(format_message_content(messages[first]))
            text == IF Len(clean) > 80 THEN Take(clean, 80) \o T_ellipsis ELSE clean
        IN /\ (n = 0 => fn_res = T_no_messages)
           /\ (n >= 1 => (fn_res = Digits(n) \o T_messages <=> first = 0))
           /\ (first # 0 => fn_res = Digits(n) \o T_messages \o T_dash \o text)

\* C12 amended: the summary is "No messages" for no messages; "<n> messages"
\* exactly when no message is sent by human or the first human message formats
\* to the empty text; otherwise "<n> messages - " and the cleaned content of the
\* first human message, unchanged when it is at most 80 characters long and else
\* its first 80 characters, trailing whitespace trimmed, followed by "...".
C12_Summary ==
    fn_op = "summary" =>
        LET messages == Get(fn_in.v, "chat_messages", <<>>)
            n == Len(messages)
            first == FirstHuman(messages)
            content == IF first = 0 THEN <<>> ELSE format_message_content(messages[first])
            clean == CleanMessage(content)
            text == IF Len(clean) > 80
                    THEN RStrip(Take(clean, 80), SpaceChars) \o T_ellipsis
                    ELSE clean
        IN /\ (n = 0 => fn_res = T_no_messages)
           /\ (n >= 1 => (fn_res = Digits(n) \o T_messages <=> content = <<>>))
           /\ (content # <<>> => fn_res = Digits(n) \o T_messages \o T_dash \o text)

\* two human messages, the first without content, the second with: the summary
\* is the count alone
C12_Witness ==
    /\ fn_op = "summary"
    /\ Len(fn_in.v.chat_messages) = 2
    /\ FirstHuman(fn_in.v.chat_messages) = 1
    /\ format_message_content(fn_in.v.chat_messages[1]) = <<>>
    /\ FirstHumanWithContent(fn_in.v.chat_messages) = 2
    /\ fn_res = <<"2">> \o T_messages

----------------------------------------------------------------------------
(* C13 *)

\* the directory of a project rendered under the name "Untitled Project"
UntitledProjectInfoPath == <<S_projects, SafeFilename(T_untitled_project), S_project_info>>

\* the entry the README and the projects index hold for a project rendered
\* under the name "Untitled Project"
UntitledProjectLine(project) ==
    [ProjectLine(project) EXCEPT !.name = T_untitled_project,
                                 !.link = UntitledProjectInfoPath]

\* C13: after a full export a project whose name is empty or absent has its
\* project_info.md in the directory safe_filename("Untitled Project") with the
\* heading "Untitled Project", and its entries in the README project list and
\* in the projects index carry that name and link to that directory.
C13_EmptyNameIsUntitledProject ==
    pc = "done" =>
        \A i \in DOMAIN projects.v :
            LET project == projects.v[i]
            IN Get(project, "name", <<>>) = <<>> =>
                 /\ \E w \in written :
                        /\ w.path = UntitledProjectInfoPath
                        /\ w.content.kind = "project_info"
                        /\ w.content.id = project.uuid
                        /\ w.content.name = T_untitled_project
                 /\ \E k \in DOMAIN out[<<S_README>>].projects :
                        out[<<S_README>>].projects[k] = UntitledProjectLine(project)
                 /\ \E k \in DOMAIN out[<<S_metadata, S_projects_index>>].entries :
                        out[<<S_metadata, S_projects_index>>].entries[k]
                            = UntitledProjectLine(project)

----------------------------------------------------------------------------
(* C14 *)

\* the blocks of type text, in their order
TextBlocks(blocks) == SelectSeq(blocks, LAMBDA b : Get(b, "type", "") = "text")

\* C14 as stated: extract_message_text returns the text fields of all blocks
\* of type text, every one of them, in order, with one newline between each two
\* consecutive text blocks.
C14_EveryTextBlockJoined ==
    fn_op = "extract_message_text" =>
        LET blocks == TextBlocks(fn_in.v)
        IN fn_res = JoinLines([i \in DOMAIN blocks |-> Get(blocks[i], "text", <<>>)])

\* C14 amended: extract_message_text returns the text fields of the blocks of
\* type text whose text is present and not empty, in order, with one newline
\* between each two of them; a block of another type, and a text block whose
\* text is empty or absent, contributes nothing and no newline.
C14_NonEmptyTextBlocksJoined ==
    fn_op = "extract_message_text" =>
        LET blocks == SelectSeq(TextBlocks(fn_in.v),
                                LAMBDA b : "text" \in DOMAIN b /\ b.text # <<>>)
            newlines == IF blocks = <<>> THEN 0 ELSE Len(blocks) - 1
        IN /\ fn_res = JoinLines([i \in DOMAIN blocks |-> blocks[i].text])
           /\ Cardinality({k \in DOMAIN fn_res : fn_res[k] = "\n"}) = newlines

\* three text blocks, the one in the middle with the empty text: the result is
\* the first text, one newline, the third text
C14_Witness ==
    /\ fn_op = "extract_message_text"
    /\ Len(fn_in.v) = 3
    /\ \A i \in 1..3 : Get(fn_in.v[i], "type", "") = "text" /\ "text" \in DOMAIN fn_in.v[i]
    /\ fn_in.v[1].text # <<>>
    /\ fn_in.v[2].text = <<>>
    /\ fn_in.v[3].text # <<>>
    /\ fn_in.v[1].text # fn_in.v[3].text
    /\ fn_res = fn_in.v[1].text \o <<"\n">> \o fn_in.v[3].text

----------------------------------------------------------------------------
(* C15 *)

\* a link of a rendered list leads to the file written for this conversation
LinkLeadsTo(link, conversation) ==
    /\ link = ConversationPath(conversation)
    /\ link \in DOMAIN out
    /\ out[link].kind = "conversation"
    /\ out[link].id = conversation.uuid

\* C15: after a full export every conversation listed among the README's recent
\* conversations or in the conversations index is linked to the path
\* safe_filename(display_name) + ".md" under standalone_conversations, and a
\* file of that conversation exists there, also when its name is empty.
C15_ConversationLinksResolve ==
    pc = "done" =>
        LET loaded == LoadedConversations
            recent == out[<<S_README>>].recent
            entries == out[IndexPath].entries
        IN \A i \in DOMAIN loaded :
              /\ \A k \in DOMAIN recent :
                    recent[k] = RecentLine(loaded[i]) => LinkLeadsTo(recent[k].link, loaded[i])
              /\ \A k \in DOMAIN entries :
                    entries[k] = IndexLine(loaded[i]) => LinkLeadsTo(entries[k].link, loaded[i])

----------------------------------------------------------------------------
(* C16 *)

\* C16: the directory segment safe_filename gives for a project name is never
\* "." or "..", and every file written for a project lies in a child directory
\* of projects: project_info.md directly in it, a document in its docs
\* directory; none lies in projects itself, in the output root or outside it.
C16_ProjectFilesContained ==
    /\ \A i \in DOMAIN projects.v :
          SafeFilename(Get(projects.v[i], "name", T_untitled_project))
              \notin {S_dot, S_dotdot}
    /\ \A w \in written :
          w.content.kind \in {"project_info", "document"} =>
             /\ Len(w.path) >= 3
             /\ w.path[1] = S_projects
             /\ w.path[2] \notin {S_dot, S_dotdot}
             /\ (w.content.kind = "project_info" =>
                    Len(w.path) = 3 /\ w.path[3] = S_project_info)
             /\ (w.content.kind = "document" =>
                    Len(w.path) = 4 /\ w.path[3] = S_docs)

====
